---- MODULE Spec2Model ----
(***************************************************************************)
(* Student Management System (src/assignment_1.py): the entity classes     *)
(* Person / Student / Course, the registry StudentManagementSystem with    *)
(* its JSON save/load, and the interactive menu loop.                      *)
(*                                                                         *)
(* Python dicts are modelled as sequences of [k, v] entries in insertion   *)
(* order (what dict iteration and json.dump/json.load preserve); Python    *)
(* lists are sequences.  A raised exception is modelled by the err field   *)
(* of an operation's result together with the state the operation had      *)
(* reached when it raised.                                                 *)
(***************************************************************************)
EXTENDS Integers, Sequences, FiniteSets, TLC

VARIABLES students, courses, fs, last, nops, pc

vars == <<students, courses, fs, last, nops, pc>>

(* ------------------------------ bounds --------------------------------- *)

\* Number of registry calls in a run of the registry specification.
MaxOps == 6

\* Input values the calls are drawn from.
StudentIds == {"S1", "S2"}
CourseCodes == {"C1", "C2"}
Names == {"Alice", "Bob"}
Ages == {20}
Addresses == {"X St"}
CourseNames == {"Algo", "Logic"}
Instructors == {"Dr. B"}
GradeValues == {"A", "B"}
DefaultFilename == "students_courses.json"
Filenames == {DefaultFilename, "backup.json"}

(* ------------------------- dicts and lists ----------------------------- *)

\* The empty dict {} and the empty list [].
EmptyDict == <<>>

\* key in d
Has(d, key) == \E i \in DOMAIN d : d[i].k = key

\* d[key], for a key of d
Get(d, key) == d[CHOOSE i \in DOMAIN d : d[i].k = key].v

\* d[key] = val: replaces in place, a new key goes last
Put(d, key, val) ==
    IF Has(d, key)
    THEN [i \in DOMAIN d |-> IF d[i].k = key THEN [k |-> key, v |-> val] ELSE d[i]]
    ELSE Append(d, [k |-> key, v |-> val])

\* x in list
Contains(list, x) == \E i \in DOMAIN list : list[i] = x

\* list.count(x)
Count(list, x) == Cardinality({i \in DOMAIN list : list[i] = x})

\* data.get(key, default) on a parsed JSON object
GetOr(data, key, default) == IF key \in DOMAIN data THEN data[key] ELSE default

(* ----------------------------- Student --------------------------------- *)

\* Person.__init__ and Student.__init__
Student_init(name, age, address, student_id) ==
    [name |-> name, age |-> age, address |-> address,
     student_id |-> student_id, grades |-> EmptyDict, courses |-> <<>>]

\* Variant of Student.add_grade: a grade already recorded is kept.
Student_add_grade_keepfirst(st, course_code, grade) ==
    IF ~Contains(st.courses, course_code)
    THEN [err |-> "ValueError", st |-> st]
    ELSE IF Has(st.grades, course_code) THEN [err |-> "none", st |-> st]
    ELSE [err |-> "none", st |-> [st EXCEPT !.grades = Put(@, course_code, grade)]]

\* Student.add_grade: result [err, st]
Student_add_grade(st, course_code, grade) ==
    IF ~Contains(st.courses, course_code)
    THEN [err |-> "ValueError", st |-> st]
    ELSE [err |-> "none", st |-> [st EXCEPT !.grades = Put(@, course_code, grade)]]

\* Variant of Student.enroll_course: no membership test before the append.
Student_enroll_course_nocheck(st, course_code) ==
    [err |-> "none", st |-> [st EXCEPT !.courses = Append(@, course_code)]]

\* Student.enroll_course: result [err, st]
Student_enroll_course(st, course_code) ==
    IF Contains(st.courses, course_code)
    THEN [err |-> "ValueError", st |-> st]
    ELSE [err |-> "none", st |-> [st EXCEPT !.courses = Append(@, course_code)]]

\* Person.to_dict and Student.to_dict
Student_to_dict(st) ==
    [name |-> st.name, age |-> st.age, address |-> st.address,
     student_id |-> st.student_id, grades |-> st.grades, courses |-> st.courses]

\* The keys Student.from_dict subscripts: a missing one raises KeyError.
StudentRequired == {"name", "age", "address", "student_id"}

\* Variant of Student.from_dict: the grades of the record are not restored.
Student_from_dict_nogrades(data) ==
    [Student_init(data["name"], data["age"], data["address"], data["student_id"])
        EXCEPT !.courses = GetOr(data, "courses", <<>>)]

\* Student.from_dict, for data holding the required keys
Student_from_dict(data) ==
    [Student_init(data["name"], data["age"], data["address"], data["student_id"])
        EXCEPT !.grades = GetOr(data, "grades", EmptyDict),
               !.courses = GetOr(data, "courses", <<>>)]

(* ------------------------------ Course --------------------------------- *)

\* Course.__init__
Course_init(course_name, course_code, instructor) ==
    [course_name |-> course_name, course_code |-> course_code,
     instructor |-> instructor, students |-> <<>>]

\* Course.add_student: result [err, co]
Course_add_student(co, student_id) ==
    IF Contains(co.students, student_id)
    THEN [err |-> "ValueError", co |-> co]
    ELSE [err |-> "none", co |-> [co EXCEPT !.students = Append(@, student_id)]]

\* Course.to_dict
Course_to_dict(co) ==
    [course_name |-> co.course_name, course_code |-> co.course_code,
     instructor |-> co.instructor, students |-> co.students]

\* The keys Course.from_dict subscripts: a missing one raises KeyError.
CourseRequired == {"course_name", "course_code", "instructor"}

\* Course.from_dict, for data holding the required keys
Course_from_dict(data) ==
    [Course_init(data["course_name"], data["course_code"], data["instructor"])
        EXCEPT !.students = GetOr(data, "students", <<>>)]

(* ------------------- StudentManagementSystem (pure) -------------------- *)
\* Each operator takes the registry's two dicts S (self.students) and
\* C (self.courses) and yields [err, students, courses]: the exception
\* raised ("none" on return) and the two dicts as the call leaves them.

\* out is the first line the call printed ("" when it printed nothing).
Printed(err, S, C, out) == [err |-> err, students |-> S, courses |-> C, out |-> out]

Outcome(err, S, C) == Printed(err, S, C, "")

\* Variant of add_student: no test for the id, the entry is replaced.
SMS_add_student_overwrite(S, C, name, age, address, student_id) ==
    Outcome("none", Put(S, student_id, Student_init(name, age, address, student_id)), C)

\* StudentManagementSystem.add_student
SMS_add_student(S, C, name, age, address, student_id) ==
    IF Has(S, student_id)
    THEN Outcome("ValueError", S, C)
    ELSE Outcome("none", Put(S, student_id, Student_init(name, age, address, student_id)), C)

\* StudentManagementSystem.add_course
SMS_add_course(S, C, course_name, course_code, instructor) ==
    IF Has(C, course_code)
    THEN Outcome("ValueError", S, C)
    ELSE Outcome("none", S, Put(C, course_code, Course_init(course_name, course_code, instructor)))

\* Variant of enroll_student_in_course: the course side is never updated.
SMS_enroll_student_only(S, C, student_id, course_code) ==
    IF ~Has(S, student_id) THEN Outcome("KeyError", S, C)
    ELSE IF ~Has(C, course_code) THEN Outcome("KeyError", S, C)
    ELSE LET r1 == Student_enroll_course(Get(S, student_id), course_code)
         IN IF r1.err # "none" THEN Outcome(r1.err, S, C)
            ELSE Outcome("none", Put(S, student_id, r1.st), C)

\* Variant of enroll_student_in_course: the student side is undone when the
\* course side raises.
SMS_enroll_rollback(S, C, student_id, course_code) ==
    IF ~Has(S, student_id) THEN Outcome("KeyError", S, C)
    ELSE IF ~Has(C, course_code) THEN Outcome("KeyError", S, C)
    ELSE LET r1 == Student_enroll_course(Get(S, student_id), course_code)
             S1 == Put(S, student_id, r1.st)
         IN IF r1.err # "none" THEN Outcome(r1.err, S, C)
            ELSE LET r2 == Course_add_student(Get(C, course_code), student_id)
                 IN IF r2.err # "none" THEN Outcome(r2.err, S, C)
                    ELSE Outcome("none", S1, Put(C, course_code, r2.co))

\* StudentManagementSystem.enroll_student_in_course
SMS_enroll_student_in_course(S, C, student_id, course_code) ==
    IF ~Has(S, student_id) THEN Outcome("KeyError", S, C)
    ELSE IF ~Has(C, course_code) THEN Outcome("KeyError", S, C)
    ELSE LET r1 == Student_enroll_course(Get(S, student_id), course_code)
             S1 == Put(S, student_id, r1.st)
         IN IF r1.err # "none" THEN Outcome(r1.err, S, C)
            ELSE LET r2 == Course_add_student(Get(C, course_code), student_id)
                 IN IF r2.err # "none" THEN Outcome(r2.err, S1, C)
                    ELSE Outcome("none", S1, Put(C, course_code, r2.co))

\* Variant of add_grade_for_student: the grade is stored without testing
\* the student's courses.
SMS_add_grade_unchecked(S, C, student_id, course_code, grade) ==
    IF ~Has(S, student_id) THEN Outcome("KeyError", S, C)
    ELSE Outcome("none",
                 Put(S, student_id,
                     [Get(S, student_id) EXCEPT !.grades = Put(@, course_code, grade)]), C)

\* StudentManagementSystem.add_grade_for_student
SMS_add_grade_for_student(S, C, student_id, course_code, grade) ==
    IF ~Has(S, student_id) THEN Outcome("KeyError", S, C)
    ELSE IF ~Contains(Get(S, student_id).courses, course_code)
         THEN Outcome("ValueError", S, C)
         ELSE LET r == Student_add_grade(Get(S, student_id), course_code, grade)
              IN IF r.err # "none" THEN Outcome(r.err, S, C)
                 ELSE Outcome("none", Put(S, student_id, r.st), C)

(* ------------------------------ files ---------------------------------- *)
\* A file: whether it exists, whether its text parses as JSON, and the
\* parsed document (an object with the optional keys students, courses);
\* writable is whether open(filename, "w") succeeds on that path.

NoFile == [exists |-> FALSE, wellformed |-> FALSE, writable |-> TRUE, data |-> <<>>]
JsonFile(data) == [exists |-> TRUE, wellformed |-> TRUE, writable |-> TRUE, data |-> data]

\* The dict comprehensions of save_data: each entity through its to_dict.
RECURSIVE StudentsToDicts(_)
StudentsToDicts(S) ==
    IF S = <<>> THEN <<>>
    ELSE <<[k |-> Head(S).k, v |-> Student_to_dict(Head(S).v)]>> \o StudentsToDicts(Tail(S))

RECURSIVE CoursesToDicts(_)
CoursesToDicts(C) ==
    IF C = <<>> THEN <<>>
    ELSE <<[k |-> Head(C).k, v |-> Course_to_dict(Head(C).v)]>> \o CoursesToDicts(Tail(C))

\* StudentManagementSystem.save_data, lines 158-161: the document built
SaveDocument(S, C) == [students |-> StudentsToDicts(S), courses |-> CoursesToDicts(C)]

\* StudentManagementSystem.save_data on file f: the call's result and, in
\* file, what the path holds afterwards
SMS_save_data(S, C, f) ==
    IF ~f.writable
    THEN [res |-> Outcome("PermissionError", S, C), file |-> f]
    ELSE [res |-> Printed("none", S, C, "All student and course data saved successfully."),
          file |-> JsonFile(SaveDocument(S, C))]

\* The dict comprehensions of load_data: each record through from_dict.
RECURSIVE StudentsFromDicts(_)
StudentsFromDicts(D) ==
    IF D = <<>> THEN <<>>
    ELSE <<[k |-> Head(D).k, v |-> Student_from_dict(Head(D).v)]>> \o StudentsFromDicts(Tail(D))

RECURSIVE CoursesFromDicts(_)
CoursesFromDicts(D) ==
    IF D = <<>> THEN <<>>
    ELSE <<[k |-> Head(D).k, v |-> Course_from_dict(Head(D).v)]>> \o CoursesFromDicts(Tail(D))

\* Every record of the dict holds the keys from_dict subscripts.
AllHave(D, required) == \A i \in DOMAIN D : required \subseteq DOMAIN D[i].v

\* The inner loop of load_data's repair, for one course cc over c.students.
RECURSIVE RepairCourse(_, _, _)
RepairCourse(S, cc, sids) ==
    IF sids = <<>> THEN S
    ELSE LET sid == Head(sids)
             S1 == IF Has(S, sid) /\ ~Contains(Get(S, sid).courses, cc)
                   THEN Put(S, sid, [Get(S, sid) EXCEPT !.courses = Append(@, cc)])
                   ELSE S
         IN RepairCourse(S1, cc, Tail(sids))

\* The outer loop of load_data's repair, over self.courses.items().
RECURSIVE Repair(_, _)
Repair(S, Cs) ==
    IF Cs = <<>> THEN S
    ELSE Repair(RepairCourse(S, Head(Cs).k, Head(Cs).v.students), Tail(Cs))

\* Variant of load_data: the loop after the two assignments is missing.
SMS_load_data_norepair(S, C, f) ==
    IF ~f.exists THEN Outcome("FileNotFoundError", S, C)
    ELSE IF ~f.wellformed THEN Outcome("JSONDecodeError", S, C)
    ELSE LET sdata == GetOr(f.data, "students", EmptyDict)
             cdata == GetOr(f.data, "courses", EmptyDict)
         IN IF ~AllHave(sdata, StudentRequired) THEN Outcome("KeyError", S, C)
            ELSE LET S1 == StudentsFromDicts(sdata)
                 IN IF ~AllHave(cdata, CourseRequired) THEN Outcome("KeyError", S1, C)
                    ELSE Printed("none", S1, CoursesFromDicts(cdata), "Data loaded successfully.")

\* StudentManagementSystem.load_data on file f
SMS_load_data(S, C, f) ==
    IF ~f.exists THEN Outcome("FileNotFoundError", S, C)
    ELSE IF ~f.wellformed THEN Outcome("JSONDecodeError", S, C)
    ELSE LET sdata == GetOr(f.data, "students", EmptyDict)
             cdata == GetOr(f.data, "courses", EmptyDict)
         IN IF ~AllHave(sdata, StudentRequired) THEN Outcome("KeyError", S, C)
            ELSE LET S1 == StudentsFromDicts(sdata)
                 IN IF ~AllHave(cdata, CourseRequired) THEN Outcome("KeyError", S1, C)
                    ELSE LET C1 == CoursesFromDicts(cdata)
                         IN Printed("none", Repair(S1, C1), C1, "Data loaded successfully.")

(* ------------------------ registry calls ------------------------------- *)
\* last records the most recent call: its name, its arguments, the
\* exception it raised ("none" when it returned) and what it printed.
\* nops is the number of calls the run has left.

\* changed records whether the call left the registry different from how
\* it found it.
Call(op, sid, cc, val, err, out, changed) ==
    [op |-> op, sid |-> sid, cc |-> cc, val |-> val, err |-> err, out |-> out,
     changed |-> changed]

NoCall == Call("init", "", "", "", "none", "", FALSE)

Changes(r) == r.students # students \/ r.courses # courses

Apply(r, op, sid, cc, val) ==
    /\ nops > 0
    /\ nops' = nops - 1
    /\ students' = r.students
    /\ courses' = r.courses
    /\ last' = Call(op, sid, cc, val, r.err, r.out, Changes(r))
    /\ UNCHANGED pc

add_student(name, age, address, student_id) ==
    /\ pc = "library"
    /\ Apply(SMS_add_student(students, courses, name, age, address, student_id),
             "add_student", student_id, "", name)
    /\ UNCHANGED fs

add_course(course_name, course_code, instructor) ==
    /\ pc = "library"
    /\ Apply(SMS_add_course(students, courses, course_name, course_code, instructor),
             "add_course", "", course_code, course_name)
    /\ UNCHANGED fs

enroll_student_in_course(student_id, course_code) ==
    /\ pc = "library"
    /\ Apply(SMS_enroll_student_in_course(students, courses, student_id, course_code),
             "enroll_student_in_course", student_id, course_code, "")
    /\ UNCHANGED fs

add_grade_for_student(student_id, course_code, grade) ==
    /\ pc = "library"
    /\ Apply(SMS_add_grade_for_student(students, courses, student_id, course_code, grade),
             "add_grade_for_student", student_id, course_code, grade)
    /\ UNCHANGED fs

save_data(filename) ==
    /\ pc = "library"
    /\ LET r == SMS_save_data(students, courses, fs[filename])
       IN /\ Apply(r.res, "save_data", "", "", filename)
          /\ fs' = [fs EXCEPT ![filename] = r.file]

load_data(filename) ==
    /\ pc = "library"
    /\ Apply(SMS_load_data(students, courses, fs[filename]), "load_data", "", "", filename)
    /\ UNCHANGED fs

(* --------------------------- specification ----------------------------- *)

\* StudentManagementSystem.__init__, with no file on disk yet.
Init ==
    /\ students = EmptyDict
    /\ courses = EmptyDict
    /\ fs = [f \in Filenames |-> NoFile]
    /\ last = NoCall
    /\ nops = MaxOps
    /\ pc = "library"

Next ==
    \/ \E n \in Names, a \in Ages, ad \in Addresses, s \in StudentIds : add_student(n, a, ad, s)
    \/ \E n \in CourseNames, c \in CourseCodes, i \in Instructors : add_course(n, c, i)
    \/ \E s \in StudentIds, c \in CourseCodes : enroll_student_in_course(s, c)
    \/ \E s \in StudentIds, c \in CourseCodes, g \in GradeValues : add_grade_for_student(s, c, g)
    \/ \E f \in Filenames : save_data(f)
    \/ \E f \in Filenames : load_data(f)

Spec == Init /\ [][Next]_vars

(* ------------------- library-level callers ----------------------------- *)
\* get_student and get_course return the stored object itself, so a caller
\* of the library can invoke an entity's method on it directly.

\* get_student(student_id).enroll_course(course_code)
Direct_enroll_course(S, C, student_id, course_code) ==
    IF ~Has(S, student_id) THEN Outcome("KeyError", S, C)
    ELSE LET r == Student_enroll_course(Get(S, student_id), course_code)
         IN Outcome(r.err, Put(S, student_id, r.st), C)

\* get_course(course_code).add_student(student_id)
Direct_add_student(S, C, course_code, student_id) ==
    IF ~Has(C, course_code) THEN Outcome("KeyError", S, C)
    ELSE LET r == Course_add_student(Get(C, course_code), student_id)
         IN Outcome(r.err, S, Put(C, course_code, r.co))

student_enroll_course(student_id, course_code) ==
    /\ pc = "library"
    /\ Apply(Direct_enroll_course(students, courses, student_id, course_code),
             "Student.enroll_course", student_id, course_code, "")
    /\ UNCHANGED fs

course_add_student(course_code, student_id) ==
    /\ pc = "library"
    /\ Apply(Direct_add_student(students, courses, course_code, student_id),
             "Course.add_student", student_id, course_code, "")
    /\ UNCHANGED fs

(* ------------------- files not written by save_data -------------------- *)
\* load_data reads whatever the named file holds.  The documents below are
\* the hand-written files the library-level specification starts with:
\* records with and without the optional keys, records lacking a key that
\* from_dict subscripts, links present on one side only, a student id
\* listed twice, an id with no student record, and text that is not JSON.

ExternalStudentRecords(sid) ==
    { [name |-> "Alice", age |-> 20, address |-> "X St", student_id |-> sid],
      [name |-> "Alice", age |-> 20, address |-> "X St", student_id |-> sid,
       grades |-> <<[k |-> "C2", v |-> "A"]>>, courses |-> <<"C2">>],
      [name |-> "Alice", address |-> "X St", student_id |-> sid] }

ExternalCourseRecords(cc) ==
    { [course_name |-> "Algo", course_code |-> cc, instructor |-> "Dr. B"],
      [course_name |-> "Algo", course_code |-> cc, instructor |-> "Dr. B", students |-> <<"S1">>],
      [course_name |-> "Algo", course_code |-> cc, instructor |-> "Dr. B", students |-> <<"S1", "S1">>],
      [course_name |-> "Algo", course_code |-> cc, instructor |-> "Dr. B", students |-> <<"S2", "S1">>],
      [course_name |-> "Algo", course_code |-> cc, students |-> <<"S1">>] }

ExternalStudentDicts ==
    {EmptyDict}
    \cup {<<[k |-> "S1", v |-> r]>> : r \in ExternalStudentRecords("S1")}
    \cup {<<[k |-> "S1", v |-> r], [k |-> "S2", v |-> Student_to_dict(Student_init("Bob", 20, "X St", "S2"))]>> :
             r \in {x \in ExternalStudentRecords("S1") : StudentRequired \subseteq DOMAIN x}}

ExternalC2 ==
    [k |-> "C2", v |-> [course_name |-> "Logic", course_code |-> "C2",
                        instructor |-> "Dr. B", students |-> <<"S1">>]]

ExternalC2Bare ==
    [k |-> "C2", v |-> [course_name |-> "Logic", course_code |-> "C2", instructor |-> "Dr. B"]]

ExternalCourseDicts ==
    {EmptyDict}
    \cup {<<[k |-> "C1", v |-> r]>> : r \in ExternalCourseRecords("C1")}
    \cup {<<[k |-> "C1", v |-> r], ExternalC2Bare>> : r \in ExternalCourseRecords("C1")}
    \cup {<<ExternalC2, [k |-> "C1", v |-> r]>> : r \in ExternalCourseRecords("C1")}

ExternalData ==
    {[students |-> s, courses |-> c] : s \in ExternalStudentDicts, c \in ExternalCourseDicts}
    \cup {[students |-> s] : s \in ExternalStudentDicts}
    \cup {[courses |-> c] : c \in ExternalCourseDicts}

MalformedFile == [exists |-> TRUE, wellformed |-> FALSE, writable |-> TRUE, data |-> <<>>]

\* A well-formed document in a file the process may read but not write.
ReadOnlyFile ==
    [exists |-> TRUE, wellformed |-> TRUE, writable |-> FALSE,
     data |-> [students |-> <<[k |-> "S1", v |-> Student_to_dict(Student_init("Alice", 20, "X St", "S1"))]>>,
               courses |-> <<ExternalC2>>]]

ExternalFiles == {NoFile, MalformedFile, ReadOnlyFile} \cup {JsonFile(d) : d \in ExternalData}

\* Number of calls in a run that starts with a hand-written file.
MaxFileOps == 3

\* A fresh registry in a directory where backup.json was written by hand.
InitFiles ==
    /\ students = EmptyDict
    /\ courses = EmptyDict
    /\ fs \in {[f \in Filenames |-> IF f = "backup.json" THEN x ELSE NoFile] : x \in ExternalFiles}
    /\ last = NoCall
    /\ nops = MaxFileOps
    /\ pc = "library"

SpecFiles == InitFiles /\ [][Next]_vars

\* Number of calls in a run whose caller also uses the shared references.
MaxSharedOps == 5

InitShared ==
    /\ students = EmptyDict
    /\ courses = EmptyDict
    /\ fs = [f \in Filenames |-> NoFile]
    /\ last = NoCall
    /\ nops = MaxSharedOps
    /\ pc = "library"

NextShared ==
    \/ \E n \in Names, a \in Ages, ad \in Addresses, s \in StudentIds : add_student(n, a, ad, s)
    \/ \E n \in CourseNames, c \in CourseCodes, i \in Instructors : add_course(n, c, i)
    \/ \E s \in StudentIds, c \in CourseCodes : enroll_student_in_course(s, c)
    \/ \E s \in StudentIds, c \in CourseCodes, g \in GradeValues : add_grade_for_student(s, c, g)
    \/ \E f \in Filenames : save_data(f)
    \/ \E f \in Filenames : load_data(f)
    \/ \E s \in StudentIds, c \in CourseCodes : student_enroll_course(s, c)
    \/ \E s \in StudentIds, c \in CourseCodes : course_add_student(c, s)

SpecShared == InitShared /\ [][NextShared]_vars

(* ----------------------------- display --------------------------------- *)

\* StudentManagementSystem.display_student
SMS_display_student(S, C, student_id) ==
    IF ~Has(S, student_id) THEN Outcome("KeyError", S, C)
    ELSE Printed("none", S, C, "Student Information:")

\* StudentManagementSystem.display_course
SMS_display_course(S, C, course_code) ==
    IF ~Has(C, course_code) THEN Outcome("KeyError", S, C)
    ELSE Printed("none", S, C, "Course Information:")

(* ------------------------------ main_menu ------------------------------ *)
\* A line typed at a prompt: its text without the surrounding whitespace
\* (body) and whether whitespace surrounds it (pad).

Typed(tokens) == {[pad |-> p, body |-> b] : p \in BOOLEAN, b \in tokens}
Plain(tokens) == {[pad |-> FALSE, body |-> b] : b \in tokens}

\* str.strip()
Strip(line) == line.body

\* int(text) on the age texts the menu is given
AgeTexts == {"20", "abc", ""}
PyInt(text) ==
    IF text = "20" THEN [ok |-> TRUE, value |-> 20]
    ELSE [ok |-> FALSE, value |-> 0]

\* The classes of an exception, for the except clauses.
Bases(err) ==
    CASE err = "ValueError" -> {"ValueError", "Exception"}
      [] err = "JSONDecodeError" -> {"JSONDecodeError", "ValueError", "Exception"}
      [] err = "KeyError" -> {"KeyError", "LookupError", "Exception"}
      [] err = "FileNotFoundError" -> {"FileNotFoundError", "OSError", "Exception"}
      [] err = "PermissionError" -> {"PermissionError", "OSError", "Exception"}
      [] OTHER -> {}

\* Variant of the except clauses: the final "except Exception" is missing.
Handler_nogeneric(err) ==
    IF "ValueError" \in Bases(err) THEN "Value error:"
    ELSE IF "KeyError" \in Bases(err) THEN "Lookup error:"
    ELSE IF "FileNotFoundError" \in Bases(err)
         THEN "File not found. Please check the filename and try again."
    ELSE "uncaught"

\* The except clauses of main_menu, in order: the message printed, or
\* "uncaught" when no clause matches and the exception leaves the loop.
Handler(err) ==
    IF "ValueError" \in Bases(err) THEN "Value error:"
    ELSE IF "KeyError" \in Bases(err) THEN "Lookup error:"
    ELSE IF "FileNotFoundError" \in Bases(err)
         THEN "File not found. Please check the filename and try again."
    ELSE IF "Exception" \in Bases(err) THEN "An unexpected error occurred:"
    ELSE "uncaught"

\* fname = input(...).strip() or "students_courses.json"
FilenameOf(line) == IF Strip(line) = "" THEN DefaultFilename ELSE Strip(line)

\* The success message of a branch is printed after the registry call; the
\* messages of branches 3 and 4 look the entities up again to print them.
ThenPrint(r, out) == IF r.err # "none" THEN r ELSE Printed("none", r.students, r.courses, out)

ThenLookup(r, student_id, course_code, out) ==
    IF r.err # "none" THEN r
    ELSE IF ~Has(r.students, student_id) \/ ~Has(r.courses, course_code)
         THEN Outcome("KeyError", r.students, r.courses)
         ELSE Printed("none", r.students, r.courses, out)

\* One pass of the while loop: the branch's result r and the files F it
\* leaves, through the except clauses, back to the prompt or out of the loop.
Iteration(choice, r, F, sid, cc) ==
    /\ pc = "awaiting"
    /\ nops > 0
    /\ nops' = nops - 1
    /\ students' = r.students
    /\ courses' = r.courses
    /\ fs' = F
    /\ last' = Call("menu", sid, cc, choice, r.err,
                    IF r.err = "none" THEN r.out ELSE Handler(r.err), Changes(r))
    /\ pc' = IF r.err # "none" /\ Handler(r.err) = "uncaught" THEN "crashed"
             ELSE IF r.err = "none" /\ choice = "0" THEN "exited"
             ELSE "awaiting"

menu_add_student(line, name, age, address, sid) ==
    /\ Strip(line) = "1"
    /\ Iteration(Strip(line),
                 IF ~PyInt(Strip(age)).ok THEN Outcome("ValueError", students, courses)
                 ELSE ThenPrint(SMS_add_student(students, courses, Strip(name),
                                                PyInt(Strip(age)).value, Strip(address), Strip(sid)),
                                "Student added successfully."),
                 fs, Strip(sid), "")

menu_add_course(line, cname, ccode, instr) ==
    /\ Strip(line) = "2"
    /\ Iteration(Strip(line),
                 ThenPrint(SMS_add_course(students, courses, Strip(cname), Strip(ccode), Strip(instr)),
                           "Course created."),
                 fs, "", Strip(ccode))

menu_enroll(line, sid, ccode) ==
    /\ Strip(line) = "3"
    /\ Iteration(Strip(line),
                 ThenLookup(SMS_enroll_student_in_course(students, courses, Strip(sid), Strip(ccode)),
                            Strip(sid), Strip(ccode), "Student enrolled."),
                 fs, Strip(sid), Strip(ccode))

menu_add_grade(line, sid, ccode, grade) ==
    /\ Strip(line) = "4"
    /\ Iteration(Strip(line),
                 ThenLookup(SMS_add_grade_for_student(students, courses, Strip(sid), Strip(ccode), Strip(grade)),
                            Strip(sid), Strip(ccode), "Grade added."),
                 fs, Strip(sid), Strip(ccode))

menu_display_student(line, sid) ==
    /\ Strip(line) = "5"
    /\ Iteration(Strip(line), SMS_display_student(students, courses, Strip(sid)), fs, Strip(sid), "")

menu_display_course(line, ccode) ==
    /\ Strip(line) = "6"
    /\ Iteration(Strip(line), SMS_display_course(students, courses, Strip(ccode)), fs, "", Strip(ccode))

menu_save(line, fname) ==
    /\ Strip(line) = "7"
    /\ LET r == SMS_save_data(students, courses, fs[FilenameOf(fname)])
       IN Iteration(Strip(line), r.res, [fs EXCEPT ![FilenameOf(fname)] = r.file], "", "")

menu_load(line, fname) ==
    /\ Strip(line) = "8"
    /\ Iteration(Strip(line), SMS_load_data(students, courses, fs[FilenameOf(fname)]), fs, "", "")

menu_exit(line) ==
    /\ Strip(line) = "0"
    /\ Iteration(Strip(line),
                 Printed("none", students, courses, "Exiting Student Management System. Goodbye!"),
                 fs, "", "")

menu_invalid(line) ==
    /\ Strip(line) \notin {"0", "1", "2", "3", "4", "5", "6", "7", "8"}
    /\ Iteration(Strip(line),
                 Printed("none", students, courses,
                         "Invalid option. Please select a number from the menu."),
                 fs, "", "")

\* Number of passes of the menu loop in a run.
MaxMenuOps == 5

\* What is typed at the prompts.
ChoiceTexts == {"0", "1", "2", "3", "4", "5", "6", "7", "8", "9", "", "add"}
MenuStudentIds == {"S1"}
MenuCourseCodes == {"C1", "C2"}
MenuNames == {"Alice"}
MenuGrades == {"A"}
FilenameTexts == {"", "backup.json"}

\* The files main_menu may find in its directory when it starts.
MenuFiles ==
    {NoFile, MalformedFile, ReadOnlyFile,
     JsonFile([students |-> <<[k |-> "S1", v |-> [name |-> "Alice", address |-> "X St", student_id |-> "S1"]]>>]),
     JsonFile([students |-> <<[k |-> "S1", v |-> [name |-> "Alice", age |-> 20, address |-> "X St",
                                                   student_id |-> "S1", courses |-> <<"C2">>]]>>,
               courses |-> <<[k |-> "C1", v |-> Course_to_dict(Course_init("Algo", "C1", "Dr. B"))]>>])}

\* main_menu up to the first prompt: sms = StudentManagementSystem().
InitMenu ==
    /\ students = EmptyDict
    /\ courses = EmptyDict
    /\ fs \in {[f \in Filenames |-> IF f = "backup.json" THEN x ELSE NoFile] : x \in MenuFiles}
    /\ last = NoCall
    /\ nops = MaxMenuOps
    /\ pc = "awaiting"

NextMenu ==
    \/ \E l \in Typed({"1"}), n \in Plain(MenuNames), a \in Plain(AgeTexts),
          ad \in Plain(Addresses), s \in Plain(MenuStudentIds) : menu_add_student(l, n, a, ad, s)
    \/ \E l \in Typed({"2"}), n \in Plain({"Algo"}), c \in Plain(MenuCourseCodes),
          i \in Plain(Instructors) : menu_add_course(l, n, c, i)
    \/ \E l \in Typed({"3"}), s \in Plain(MenuStudentIds), c \in Plain(MenuCourseCodes) :
          menu_enroll(l, s, c)
    \/ \E l \in Typed({"4"}), s \in Plain(MenuStudentIds), c \in Plain(MenuCourseCodes),
          g \in Plain(MenuGrades) : menu_add_grade(l, s, c, g)
    \/ \E l \in Typed({"5"}), s \in Plain(MenuStudentIds) : menu_display_student(l, s)
    \/ \E l \in Typed({"6"}), c \in Plain(MenuCourseCodes) : menu_display_course(l, c)
    \/ \E l \in Typed({"7"}), f \in Plain(FilenameTexts) : menu_save(l, f)
    \/ \E l \in Typed({"8"}), f \in Plain(FilenameTexts) : menu_load(l, f)
    \/ \E l \in Typed({"0"}) : menu_exit(l)
    \/ \E l \in Typed(ChoiceTexts) : menu_invalid(l)

SpecMenu == InitMenu /\ [][NextMenu]_vars

(* ------------------------------ properties ----------------------------- *)

\* c in s.courses, for the student stored under key s of dict S
Enrolled(S, s, c) == Has(S, s) /\ Contains(Get(S, s).courses, c)

\* s in c.students, for the course stored under key c of dict C
Listed(C, c, s) == Has(C, c) /\ Contains(Get(C, c).students, s)

\* Some stored student holds a grade.
SomeGrade == \E i \in DOMAIN students : students[i].v.grades # EmptyDict

\* C1: in every state the registry operations reach, after successful and
\* failing calls alike, every course code that is a key of a student's
\* grades is a member of that student's courses list.
C1_GradesOnlyForEnrolledCourses ==
    \A i \in DOMAIN students :
        \A j \in DOMAIN students[i].v.grades :
            Contains(students[i].v.courses, students[i].v.grades[j].k)

\* A graded student, right after a grade for a course the student is not
\* enrolled in was refused.
C1_Witness ==
    /\ last.op = "add_grade_for_student"
    /\ last.err = "ValueError"
    /\ Has(students, last.sid)
    /\ Get(students, last.sid).grades # EmptyDict

\* C2: for an existing student s and course c, enroll_student_in_course(s, c)
\* succeeds when c is not in s.courses and fails with ValueError, changing
\* nothing, when it is; after either call c occurs exactly once in
\* s.courses and s exactly once in c.students.
C2_EnrollOnce ==
    [][(/\ last'.op = "enroll_student_in_course"
        /\ Has(students, last'.sid)
        /\ Has(courses, last'.cc))
       => /\ IF Contains(Get(students, last'.sid).courses, last'.cc)
             THEN /\ last'.err = "ValueError"
                  /\ students' = students
                  /\ courses' = courses
             ELSE last'.err = "none"
          /\ Count(Get(students', last'.sid).courses, last'.cc) = 1
          /\ Count(Get(courses', last'.cc).students, last'.sid) = 1]_vars

\* A repeated enrollment was rejected and the pair is still there once.
C2_Witness ==
    /\ last.op = "enroll_student_in_course"
    /\ last.err = "ValueError"
    /\ ~last.changed
    /\ Enrolled(students, last.sid, last.cc)
    /\ Listed(courses, last.cc, last.sid)

\* C3: add_student with an id already present and add_course with a code
\* already present fail with ValueError and leave both collections, the
\* existing entry included, exactly as they were.
C3_DuplicateKeyRejected ==
    [][/\ (last'.op = "add_student" /\ Has(students, last'.sid))
            => (last'.err = "ValueError" /\ students' = students /\ courses' = courses)
       /\ (last'.op = "add_course" /\ Has(courses, last'.cc))
            => (last'.err = "ValueError" /\ students' = students /\ courses' = courses)]_vars

\* add_student was rejected for the id of an enrolled student, called with
\* another name than the stored one.
C3_Witness ==
    /\ last.op = "add_student"
    /\ last.err = "ValueError"
    /\ Has(students, last.sid)
    /\ Get(students, last.sid).name # last.val
    /\ Get(students, last.sid).courses # <<>>

\* C4 (as stated): whenever load_data fails, the students and courses
\* collections are exactly what they were before the call.
C4_FailedLoadLeavesRegistry ==
    (last.op = "load_data" /\ last.err # "none") => ~last.changed

\* C5: for every state the registry operations reach, save_data followed by
\* load_data on a fresh registry yields the same students and courses
\* collections: same keys, field values, courses lists, grades and students
\* lists; the repair adds nothing.
C5_SaveLoadRoundTrip ==
    LET saved == SMS_save_data(students, courses, NoFile)
        loaded == SMS_load_data(EmptyDict, EmptyDict, saved.file)
    IN /\ saved.res.err = "none"
       /\ loaded.err = "none"
       /\ loaded.students = students
       /\ loaded.courses = courses

\* A registry with a graded enrollment has been written to a file and read
\* back from it.
C5_Witness ==
    /\ last.op = "load_data"
    /\ last.err = "none"
    /\ SomeGrade
    /\ \E i \in DOMAIN courses : courses[i].v.students # <<>>
    /\ fs[last.val].data = SaveDocument(students, courses)

\* C6: for an existing student s, add_grade_for_student(s, c, g) fails with
\* ValueError and changes nothing when c is not in s.courses; when it is,
\* the call succeeds and sets grades[c] to g, overwriting an earlier grade
\* and changing nothing else.  A student stays enrolled through every call
\* except load_data.
C6_GradeLastWriteWins ==
    [][/\ (last'.op = "add_grade_for_student" /\ Has(students, last'.sid))
            => IF ~Contains(Get(students, last'.sid).courses, last'.cc)
               THEN /\ last'.err = "ValueError"
                    /\ students' = students
                    /\ courses' = courses
               ELSE /\ last'.err = "none"
                    /\ Get(Get(students', last'.sid).grades, last'.cc) = last'.val
                    /\ students' = Put(students, last'.sid,
                                       [Get(students, last'.sid) EXCEPT
                                           !.grades = Put(@, last'.cc, last'.val)])
                    /\ courses' = courses
       /\ last'.op # "load_data"
            => \A s \in StudentIds, c \in CourseCodes :
                   Enrolled(students, s, c) => Enrolled(students', s, c)]_vars

\* A grade was written over the one a saved file still shows.
C6_Witness ==
    /\ last.op = "add_grade_for_student"
    /\ last.err = "none"
    /\ \E f \in Filenames :
         /\ fs[f].exists
         /\ \E i \in DOMAIN fs[f].data.students :
              LET rec == fs[f].data.students[i]
              IN /\ rec.k = last.sid
                 /\ Has(rec.v.grades, last.cc)
                 /\ Get(rec.v.grades, last.cc) # last.val
    /\ Get(Get(students, last.sid).grades, last.cc) = last.val

\* c is in s.courses exactly when s is in c.students, for every stored pair.
InSync ==
    \A i \in DOMAIN students, j \in DOMAIN courses :
        Contains(students[i].v.courses, courses[j].k)
            <=> Contains(courses[j].v.students, students[i].k)

\* C7: in every state the registry operations reach, for every student s
\* and course c of the registry, c is in s.courses iff s is in c.students;
\* and no enroll_student_in_course call fails after changing the registry.
C7_EnrollmentInSync ==
    /\ InSync
    /\ ~(last.op = "enroll_student_in_course" /\ last.err # "none" /\ last.changed)

\* An enrollment has come back through load_data.
C7_Witness ==
    /\ last.op = "load_data"
    /\ last.err = "none"
    /\ \E s \in StudentIds, c \in CourseCodes :
         Enrolled(students, s, c) /\ Listed(courses, c, s)

\* C8: after a successful load_data both collections hold exactly the
\* entities of the loaded document, in its order and with its field values;
\* each student's courses list is the loaded list followed only by codes of
\* loaded courses that list the student and were missing from it; every
\* course's students list is as loaded; every loaded course that lists a
\* loaded student is in that student's courses; and a student listing a
\* course whose students list omits them is left that way.
C8_LoadReplacesAndRepairs ==
    [][(last'.op = "load_data" /\ last'.err = "none")
       => LET doc == fs[last'.val].data
              sdata == GetOr(doc, "students", EmptyDict)
              cdata == GetOr(doc, "courses", EmptyDict)
          IN /\ Len(students') = Len(sdata)
             /\ Len(courses') = Len(cdata)
             /\ \A i \in DOMAIN sdata :
                  LET st == students'[i].v
                      rec == sdata[i].v
                      loaded == GetOr(rec, "courses", <<>>)
                  IN /\ students'[i].k = sdata[i].k
                     /\ st.name = rec.name
                     /\ st.age = rec.age
                     /\ st.address = rec.address
                     /\ st.student_id = rec.student_id
                     /\ st.grades = GetOr(rec, "grades", EmptyDict)
                     /\ Len(st.courses) >= Len(loaded)
                     /\ SubSeq(st.courses, 1, Len(loaded)) = loaded
                     /\ \A n \in (Len(loaded) + 1)..Len(st.courses) :
                          /\ ~Contains(loaded, st.courses[n])
                          /\ Count(st.courses, st.courses[n]) = 1
                          /\ \E j \in DOMAIN cdata :
                               /\ cdata[j].k = st.courses[n]
                               /\ Contains(GetOr(cdata[j].v, "students", <<>>), sdata[i].k)
                     /\ \A j \in DOMAIN cdata :
                          (/\ Contains(loaded, cdata[j].k)
                           /\ ~Contains(GetOr(cdata[j].v, "students", <<>>), sdata[i].k))
                          => (/\ Contains(st.courses, cdata[j].k)
                              /\ ~Contains(courses'[j].v.students, sdata[i].k))
             /\ \A j \in DOMAIN cdata :
                  /\ courses'[j].k = cdata[j].k
                  /\ courses'[j].v.course_name = cdata[j].v.course_name
                  /\ courses'[j].v.course_code = cdata[j].v.course_code
                  /\ courses'[j].v.instructor = cdata[j].v.instructor
                  /\ courses'[j].v.students = GetOr(cdata[j].v, "students", <<>>)
                  /\ \A n \in DOMAIN courses'[j].v.students :
                       Has(students', courses'[j].v.students[n])
                       => Contains(Get(students', courses'[j].v.students[n]).courses, cdata[j].k)]_vars

\* A load whose repair appended a course to a student, and which left that
\* student listing another course whose students list omits them.
C8_Witness ==
    /\ last.op = "load_data"
    /\ last.err = "none"
    /\ "students" \in DOMAIN fs[last.val].data
    /\ \E i \in DOMAIN students :
         /\ Len(students[i].v.courses)
                > Len(GetOr(fs[last.val].data.students[i].v, "courses", <<>>))
         /\ \E j \in DOMAIN courses :
              /\ Contains(students[i].v.courses, courses[j].k)
              /\ ~Contains(courses[j].v.students, students[i].k)

\* C9: enroll_student_in_course(s, c) with an unknown student or an unknown
\* course raises KeyError and changes nothing; with both known, c not in
\* s.courses and s already in c.students, it raises ValueError and leaves c
\* appended to s.courses, the course untouched.
C9_EnrollNoRollback ==
    [][last'.op = "enroll_student_in_course"
       => IF ~Has(students, last'.sid) \/ ~Has(courses, last'.cc)
          THEN /\ last'.err = "KeyError"
               /\ students' = students
               /\ courses' = courses
          ELSE (/\ ~Contains(Get(students, last'.sid).courses, last'.cc)
                /\ Contains(Get(courses, last'.cc).students, last'.sid))
               => /\ last'.err = "ValueError"
                  /\ students' = Put(students, last'.sid,
                                     [Get(students, last'.sid) EXCEPT
                                         !.courses = Append(@, last'.cc)])
                  /\ courses' = courses]_vars

\* An enrollment that raised after appending the course to the student.
C9_Witness ==
    /\ last.op = "enroll_student_in_course"
    /\ last.err = "ValueError"
    /\ last.changed
    /\ Enrolled(students, last.sid, last.cc)
    /\ Count(Get(courses, last.cc).students, last.sid) = 1

\* The messages of the except clauses.
ErrorMessages ==
    {"Value error:", "Lookup error:",
     "File not found. Please check the filename and try again.",
     "An unexpected error occurred:"}

\* C10: the menu loop is either awaiting input or has exited; a pass of the
\* loop leaves it exactly when the choice is 0; every other pass, whether
\* its command succeeds, raises or is not recognised, prints a message and
\* returns to awaiting input, an exception being answered by the message of
\* an except clause; nothing happens after the exit.
C10_MenuLoop ==
    /\ [](pc \in {"awaiting", "exited"})
    /\ [][/\ pc = "awaiting"
          /\ last'.op = "menu"
          /\ (pc' = "exited") <=> (last'.val = "0")
          /\ last'.val # "0" => (pc' = "awaiting" /\ last'.out # "")
          /\ last'.err # "none" => (pc' = "awaiting" /\ last'.out \in ErrorMessages)]_vars

\* The loop is awaiting input again after save_data raised an error that
\* only the last except clause catches.
C10_Witness ==
    /\ pc = "awaiting"
    /\ last.op = "menu"
    /\ last.val = "7"
    /\ last.err = "PermissionError"
    /\ last.out = "An unexpected error occurred:"

====
